---- MODULE Spec2Model ----
(***************************************************************************)
(* Model of hostile's aligner descriptor (src/hostile/aligner.py): index   *)
(* provisioning (Aligner.check, Aligner.fetch_default_index) and the       *)
(* compilation of the single-end and paired-end cleaning pipelines         *)
(* (Aligner.gen_clean_cmd, Aligner.gen_paired_clean_cmd).                  *)
(*                                                                         *)
(* Text is modelled as a sequence of chunks (strings): concatenation is    *)
(* \o, str.replace works chunk by chunk, and a path is the chunk sequence  *)
(* of its text.  The file system is the set of paths that exist.           *)
(***************************************************************************)
EXTENDS Integers, Sequences, FiniteSets, TLC

VARIABLES
    aligner,           \* identity fields of the Aligner dataclass (name, templates, ...)
    idx_path,          \* Aligner.idx_path
    ref_archive_path,  \* Aligner.ref_archive_path
    platform,          \* what util.get_platform() reports on this machine
    fs,                \* the paths that exist on disk
    op,                \* the method that returned last ("none" before any call)
    req,               \* its arguments
    outcome,           \* "ok" or the name of the exception it raised
    cmd,               \* the command it returned (<<>> when it raised)
    cmd_template,      \* its cmd_template dictionary when it returned
    events,            \* the collaborator calls it made, in order
    variant,           \* which pipeline the record stream belongs to
    flags_in,          \* FLAG fields of the SAM records read by the filter stage
    flags_out,         \* FLAG fields of the records the filter stage let through
    lines,             \* kinds of the lines read by the rename stage
    ids,               \* identifiers the rename stage printed, in order
    start,             \* awk variable start
    line_count         \* awk variable line_count

vars == <<aligner, idx_path, ref_archive_path, platform, fs, op, req, outcome,
          cmd, cmd_template, events, variant, flags_in, flags_out, lines, ids,
          start, line_count>>

descriptorVars == <<aligner, idx_path, ref_archive_path>>
callVars == <<op, req, outcome, cmd, cmd_template, events>>
streamVars == <<variant, flags_in, flags_out, lines, ids, start, line_count>>

-----------------------------------------------------------------------------
(* Bounds of the model *)

NumIdxFiles == 3      \* files of the multi-file index
MaxRecords == 2       \* SAM records fed to the filter stage
MaxFlag == 15         \* largest FLAG value fed to the filter stage
MaxLines == 7         \* lines fed to the rename stage

-----------------------------------------------------------------------------
(* Text and paths *)

None == <<>>

\* Path.__truediv__: dir / name
Join(dir, fn) == IF fn = "" THEN dir ELSE dir \o <<"/", fn>>

\* str.replace(k, v): every occurrence of k, left to right, no rescan of v
RECURSIVE Replace(_, _, _)
Replace(s, k, v) ==
    IF s = <<>> THEN <<>>
    ELSE (IF Head(s) = k THEN v ELSE <<Head(s)>>) \o Replace(Tail(s), k, v)

Contains(s, c) == \E i \in 1..Len(s) : s[i] = c

\* suffix-stripped base name of a read file: <<dir, "/", stem, suffix>>
fastq_path_to_stem(fastq) == fastq[3]

\* out_dir / f"{stem}{suffix}"
OutPath(out_dir, stem, suffix) == out_dir \o <<"/", stem, suffix>>

Quoted(path) == <<"'">> \o path \o <<"'">>

\* Path.mkdir(exist_ok=True, parents=True)
mkdir(files, dir) == files \cup {dir}

-----------------------------------------------------------------------------
(* The descriptor *)

data_dir == <<"data">>

\* The two backends: identity fields of the dataclass
Aligners ==
    { [name |-> "Bowtie2", bin_path |-> <<"bowtie2">>,
       idx_name |-> "human-bowtie2", idx_archive_fn |-> "human-bowtie2.tar",
       ref_archive_fn |-> "",
       cmd |-> <<"{BIN_PATH}", " -x '", "{INDEX_PATH}", "' -U '", "{FASTQ}",
                 "' -k 1 --mm -p ", "{THREADS}", " ", "{ALIGNER_ARGS}">>,
       paired_cmd |-> <<"{BIN_PATH}", " -x '", "{INDEX_PATH}", "' -1 '", "{FASTQ1}",
                        "' -2 '", "{FASTQ2}", "' -k 1 --mm -p ", "{THREADS}", " ",
                        "{ALIGNER_ARGS}">>],
      [name |-> "Minimap2", bin_path |-> <<"minimap2">>,
       idx_name |-> "", idx_archive_fn |-> "",
       ref_archive_fn |-> "human.fa.gz",
       cmd |-> <<"{BIN_PATH}", " -ax map-ont -t ", "{THREADS}", " ", "{ALIGNER_ARGS}",
                 " '", "{REF_ARCHIVE_PATH}", "' '", "{FASTQ}", "'">>,
       paired_cmd |-> <<"{BIN_PATH}", " -ax sr -t ", "{THREADS}", " ", "{ALIGNER_ARGS}",
                        " '", "{REF_ARCHIVE_PATH}", "' '", "{FASTQ1}", "' '",
                        "{FASTQ2}", "'">>] }

\* __post_init__: the derived default paths
DefaultIdxPath(a) == Join(data_dir, a.idx_name)
DefaultRefArchivePath(a) == Join(data_dir, a.ref_archive_fn)

\* Aligner.idx_paths: the files of the multi-file index (none for Minimap2)
idx_paths(a) ==
    IF a.name = "Bowtie2"
    THEN { DefaultIdxPath(a) \o <<".", ToString(i), ".bt2">> : i \in 1..NumIdxFiles }
    ELSE {}

-----------------------------------------------------------------------------
(* Requests *)

Fastqs == { <<"reads", "/", "sample_1", ".fastq.gz">>,
            <<"reads", "/", "sample_2", ".fastq.gz">> }
OutDir == <<"out">>
CustomIndex == <<"custom", "/", "index">>
ArgsSet == { <<"--local">>, <<"{THREADS}">> }
ThreadsSet == {2, 8}
Platforms == {"darwin", "linux"}

NoReq == [fastq1 |-> None, fastq2 |-> None, out_dir |-> None, index |-> None,
          rename |-> FALSE, reorder |-> FALSE, aligner_args |-> <<>>,
          threads |-> 0, force |-> FALSE, using_custom_index |-> FALSE]

-----------------------------------------------------------------------------
(* Pipeline stages *)

CountBeforeMask == 2304
CountAfterMask == 256
SingleFilterMask == 4
\* the single-end mask given to the paired filter as well
PairedFilterMaskUnmappedOnly == SingleFilterMask
PairedFilterMask == 12

TeeStage == " | tee >(samtools view -F "
FilterStage == " | samtools view -f "
SortStage == " | samtools sort -n -O sam -@ 6 -m 1G"
SingleRenameStage ==
    " | awk 'BEGIN {{ FS=OFS=\"\\t\"; line_count=0 }} /^@/ {{ next }} {{ $1=int(line_count+1)\" \"; print $0; line_count++ }}'"
PairedRenameStage ==
    " | awk 'BEGIN {{ FS=OFS=\"\\t\"; start=0; line_count=1 }} /^@/ {{ next }} !start && !/^@/ {{ start=1 }} start {{ $1=int((line_count+1)/2)\" \"; print $0; line_count++ }}'"
WriteStage == " | samtools fastq --threads "
NativeReorder == " --reorder"

\* f" | tee >(samtools view -F {mask} -c - > '{path}')"
Tap(mask, path) == <<TeeStage, ToString(mask), " -c - > ">> \o Quoted(path) \o <<")">>

\* f" | samtools view -f {mask} -"
Filter(mask) == <<FilterStage, ToString(mask), " -">>

\* the cmd_template loop: sequential str.replace, in dictionary order
RECURSIVE Substitute(_, _, _)
Substitute(text, keys, template) ==
    IF keys = <<>> THEN text
    ELSE Substitute(Replace(text, Head(keys), template[Head(keys)]), Tail(keys), template)

SingleKeys == <<"{BIN_PATH}", "{REF_ARCHIVE_PATH}", "{INDEX_PATH}", "{FASTQ}",
                "{ALIGNER_ARGS}", "{THREADS}">>
PairedKeys == <<"{BIN_PATH}", "{REF_ARCHIVE_PATH}", "{INDEX_PATH}", "{FASTQ1}",
                "{FASTQ2}", "{ALIGNER_ARGS}", "{THREADS}">>

\* if index: self.idx_path = Path(index); self.ref_archive_path = Path(index)
PathAfterIndex(index, current) == IF index # None THEN index ELSE current

\* the rename stage laid out upstream of the sort stage
PipelineRenameFirst(alignment_cmd, before, mask, after, reorder_cmd, rename_cmd, write) ==
    alignment_cmd \o Tap(CountBeforeMask, before) \o Filter(mask)
        \o Tap(CountAfterMask, after) \o rename_cmd \o reorder_cmd \o write

\* the stages downstream of the alignment command, as the f-string lays them out
Pipeline(alignment_cmd, before, mask, after, reorder_cmd, rename_cmd, write) ==
    alignment_cmd \o Tap(CountBeforeMask, before) \o Filter(mask)
        \o Tap(CountAfterMask, after) \o reorder_cmd \o rename_cmd \o write

-----------------------------------------------------------------------------
(* Aligner.gen_clean_cmd *)

SingleOutPath(fastq, out_dir) ==
    OutPath(out_dir, fastq_path_to_stem(fastq), ".clean.fastq.gz")

\* if not force and fastq_out_path.exists()
SingleCollision(fastq, out_dir, force, files) ==
    ~force /\ SingleOutPath(fastq, out_dir) \in files

SingleReorderCmd(reorder) == IF reorder THEN <<SortStage>> ELSE <<>>

SingleRenameCmd(rename) == IF rename THEN <<SingleRenameStage>> ELSE <<>>

SingleWrite(threads, out) ==
    <<WriteStage, ToString(threads), " -c 6 -0 ">> \o Quoted(out)

gen_clean_cmd(fastq, out_dir, index, rename, reorder, aligner_args, threads, force) ==
    LET fastq_stem == fastq_path_to_stem(fastq)
        fastq_out_path == SingleOutPath(fastq, out_dir)
        count_before_path == OutPath(out_dir, fastq_stem, ".reads_in.txt")
        count_after_path == OutPath(out_dir, fastq_stem, ".reads_out.txt")
        new_idx_path == PathAfterIndex(index, idx_path)
        new_ref_archive_path == PathAfterIndex(index, ref_archive_path)
        template == ("{BIN_PATH}" :> aligner.bin_path)
                    @@ ("{REF_ARCHIVE_PATH}" :> new_ref_archive_path)
                    @@ ("{INDEX_PATH}" :> new_idx_path)
                    @@ ("{FASTQ}" :> fastq)
                    @@ ("{ALIGNER_ARGS}" :> aligner_args)
                    @@ ("{THREADS}" :> <<ToString(threads)>>)
        alignment_cmd == Substitute(aligner.cmd, SingleKeys, template)
        request == [NoReq EXCEPT !.fastq1 = fastq, !.out_dir = out_dir, !.index = index,
                                 !.rename = rename, !.reorder = reorder,
                                 !.aligner_args = aligner_args, !.threads = threads,
                                 !.force = force]
    IN  /\ op = "none"
        /\ op' = "gen_clean_cmd"
        /\ req' = request
        /\ events' = <<>>
        /\ IF SingleCollision(fastq, out_dir, force, fs)
           THEN /\ outcome' = "FileExistsError"
                /\ cmd' = <<>>
                /\ cmd_template' = <<>>
                /\ UNCHANGED <<idx_path, ref_archive_path>>
           ELSE /\ outcome' = "ok"
                /\ idx_path' = new_idx_path
                /\ ref_archive_path' = new_ref_archive_path
                /\ cmd_template' = template
                /\ cmd' = Pipeline(alignment_cmd, count_before_path, SingleFilterMask,
                                   count_after_path, SingleReorderCmd(reorder),
                                   SingleRenameCmd(rename),
                                   SingleWrite(threads, fastq_out_path))
        /\ fs' = mkdir(fs, out_dir)
        /\ UNCHANGED <<aligner, platform>>
        /\ UNCHANGED streamVars

GenCleanCmd ==
    \E fastq \in Fastqs, index \in {None, CustomIndex}, rename \in BOOLEAN,
       reorder \in BOOLEAN, aligner_args \in ArgsSet, threads \in ThreadsSet,
       force \in BOOLEAN :
        gen_clean_cmd(fastq, OutDir, index, rename, reorder, aligner_args, threads, force)

-----------------------------------------------------------------------------
(* Aligner.gen_paired_clean_cmd *)

PairedOutPath1(fastq1, fastq2, out_dir) ==
    OutPath(out_dir, fastq_path_to_stem(fastq1), ".clean_1.fastq.gz")

PairedOutPath2(fastq1, fastq2, out_dir) ==
    OutPath(out_dir, fastq_path_to_stem(fastq2), ".clean_2.fastq.gz")

\* a guard that looks at the first mate file only
PairedCollisionFirstMate(fastq1, fastq2, out_dir, force, files) ==
    ~force /\ PairedOutPath1(fastq1, fastq2, out_dir) \in files

\* if not force and (fastq1_out_path.exists() or fastq2_out_path.exists())
PairedCollision(fastq1, fastq2, out_dir, force, files) ==
    ~force /\ (\/ PairedOutPath1(fastq1, fastq2, out_dir) \in files
               \/ PairedOutPath2(fastq1, fastq2, out_dir) \in files)

\* the single-end rule applied to pairs: the sort stage on every platform
PairedReorderCmdAnyPlatform(reorder, plat) ==
    IF reorder THEN <<SortStage>> ELSE <<>>

\* the explicit sort stage: only under MacOS
PairedReorderCmd(reorder, plat) ==
    IF reorder /\ plat = "darwin" THEN <<SortStage>> ELSE <<>>

\* aligner_args += " --reorder": everywhere else
PairedAlignerArgs(aligner_args, reorder, plat) ==
    IF reorder /\ plat # "darwin" THEN aligner_args \o <<NativeReorder>> ELSE aligner_args

PairedRenameCmd(rename) == IF rename THEN <<PairedRenameStage>> ELSE <<>>

PairedWrite(threads, out1, out2) ==
    <<WriteStage, ToString(threads), " -c 6 -N -1 ">> \o Quoted(out1)
        \o <<" -2 ">> \o Quoted(out2)

gen_paired_clean_cmd(fastq1, fastq2, out_dir, index, rename, reorder, aligner_args, threads, force) ==
    LET fastq1_stem == fastq_path_to_stem(fastq1)
        fastq1_out_path == PairedOutPath1(fastq1, fastq2, out_dir)
        fastq2_out_path == PairedOutPath2(fastq1, fastq2, out_dir)
        count_before_path == OutPath(out_dir, fastq1_stem, ".reads_in.txt")
        count_after_path == OutPath(out_dir, fastq1_stem, ".reads_out.txt")
        new_idx_path == PathAfterIndex(index, idx_path)
        new_ref_archive_path == PathAfterIndex(index, ref_archive_path)
        template == ("{BIN_PATH}" :> aligner.bin_path)
                    @@ ("{REF_ARCHIVE_PATH}" :> new_ref_archive_path)
                    @@ ("{INDEX_PATH}" :> new_idx_path)
                    @@ ("{FASTQ1}" :> fastq1)
                    @@ ("{FASTQ2}" :> fastq2)
                    @@ ("{ALIGNER_ARGS}" :> PairedAlignerArgs(aligner_args, reorder, platform))
                    @@ ("{THREADS}" :> <<ToString(threads)>>)
        alignment_cmd == Substitute(aligner.paired_cmd, PairedKeys, template)
        request == [NoReq EXCEPT !.fastq1 = fastq1, !.fastq2 = fastq2,
                                 !.out_dir = out_dir, !.index = index,
                                 !.rename = rename, !.reorder = reorder,
                                 !.aligner_args = aligner_args, !.threads = threads,
                                 !.force = force]
    IN  /\ op = "none"
        /\ op' = "gen_paired_clean_cmd"
        /\ req' = request
        /\ events' = <<>>
        /\ IF PairedCollision(fastq1, fastq2, out_dir, force, fs)
           THEN /\ outcome' = "FileExistsError"
                /\ cmd' = <<>>
                /\ cmd_template' = <<>>
                /\ UNCHANGED <<idx_path, ref_archive_path>>
           ELSE /\ outcome' = "ok"
                /\ idx_path' = new_idx_path
                /\ ref_archive_path' = new_ref_archive_path
                /\ cmd_template' = template
                /\ cmd' = Pipeline(alignment_cmd, count_before_path, PairedFilterMask,
                                   count_after_path, PairedReorderCmd(reorder, platform),
                                   PairedRenameCmd(rename),
                                   PairedWrite(threads, fastq1_out_path, fastq2_out_path))
        /\ fs' = mkdir(fs, out_dir)
        /\ UNCHANGED <<aligner, platform>>
        /\ UNCHANGED streamVars

GenPairedCleanCmd ==
    \E fastq1 \in Fastqs, fastq2 \in Fastqs, index \in {None, CustomIndex},
       rename \in BOOLEAN, reorder \in BOOLEAN, aligner_args \in ArgsSet,
       threads \in ThreadsSet, force \in BOOLEAN :
        gen_paired_clean_cmd(fastq1, fastq2, OutDir, index, rename, reorder,
                             aligner_args, threads, force)

-----------------------------------------------------------------------------
(* Aligner.check and Aligner.fetch_default_index *)

\* the default data check() looks for
DefaultDataPresent(a, ref, files) ==
    CASE a.name = "Bowtie2" -> \A path \in idx_paths(a) : path \in files
      [] a.name = "Minimap2" -> ref \in files
      [] OTHER -> TRUE

\* a check that fetches without looking at the cache
NeedsFetchAlways(a, ref, files, using_custom_index) == ~using_custom_index

\* if not using_custom_index: ... self.fetch_default_index()
NeedsFetch(a, ref, files, using_custom_index) ==
    ~using_custom_index /\ ~DefaultDataPresent(a, ref, files)

Event(call, ok) == [call |-> call, ok |-> ok]

\* fetch_default_index: the collaborator calls made, in order, with their success;
\* an exception ends the sequence
FetchEvents(a, download_ok, untar_ok) ==
    CASE a.name = "Bowtie2" ->
            IF download_ok
            THEN <<Event("mkdir", TRUE), Event("download", TRUE),
                   Event("untar_file", untar_ok)>>
            ELSE <<Event("mkdir", TRUE), Event("download", FALSE)>>
      [] a.name = "Minimap2" ->
            IF download_ok
            THEN <<Event("mkdir", TRUE), Event("download", TRUE), Event("move", TRUE)>>
            ELSE <<Event("mkdir", TRUE), Event("download", FALSE)>>
      [] OTHER -> <<Event("mkdir", TRUE)>>

FetchRaises(a, download_ok, untar_ok) ==
    CASE a.name = "Bowtie2" -> ~download_ok \/ ~untar_ok
      [] a.name = "Minimap2" -> ~download_ok
      [] OTHER -> FALSE

\* tempfile.NamedTemporaryFile(delete=False)
tmp_path == <<"tmp", "/", "tmpfile">>

\* files on disk after fetch_default_index: the temporary file stays unless it is
\* moved; the archive unpacks to the index file set under data_dir; the reference
\* is moved to ref_archive_path
FetchFiles(a, ref, files, download_ok, untar_ok) ==
    CASE a.name = "Bowtie2" /\ download_ok /\ untar_ok ->
            mkdir(files, data_dir) \cup {tmp_path} \cup idx_paths(a)
      [] a.name = "Bowtie2" -> mkdir(files, data_dir) \cup {tmp_path}
      [] a.name = "Minimap2" /\ download_ok -> mkdir(files, data_dir) \cup {ref}
      [] a.name = "Minimap2" -> mkdir(files, data_dir) \cup {tmp_path}
      [] OTHER -> mkdir(files, data_dir)

\* a probe whose failure is only logged
ProbeOutcomeSwallowed(probe_ok) == "ok"

\* try: util.run(f"{self.bin_path} --version") except CalledProcessError: raise RuntimeError
ProbeOutcome(probe_ok) == IF probe_ok THEN "ok" ELSE "RuntimeError"

check(using_custom_index, download_ok, untar_ok, probe_ok) ==
    LET fetch == NeedsFetch(aligner, ref_archive_path, fs, using_custom_index)
        raises == fetch /\ FetchRaises(aligner, download_ok, untar_ok)
    IN  /\ op = "none"
        /\ op' = "check"
        /\ req' = [NoReq EXCEPT !.using_custom_index = using_custom_index]
        /\ cmd' = <<>>
        /\ cmd_template' = <<>>
        /\ fs' = IF fetch
                 THEN FetchFiles(aligner, ref_archive_path, fs, download_ok, untar_ok)
                 ELSE fs
        /\ events' = (IF fetch THEN FetchEvents(aligner, download_ok, untar_ok) ELSE <<>>)
                     \o (IF raises THEN <<>> ELSE <<Event("run_version", probe_ok)>>)
        /\ outcome' = IF raises THEN "IOError" ELSE ProbeOutcome(probe_ok)
        /\ UNCHANGED descriptorVars
        /\ UNCHANGED platform
        /\ UNCHANGED streamVars

Check ==
    \E using_custom_index \in BOOLEAN, download_ok \in BOOLEAN, untar_ok \in BOOLEAN,
       probe_ok \in BOOLEAN :
        check(using_custom_index, download_ok, untar_ok, probe_ok)

-----------------------------------------------------------------------------
(* The caller *)

NoCall ==
    /\ op = "none"
    /\ req = NoReq
    /\ outcome = "none"
    /\ cmd = <<>>
    /\ cmd_template = <<>>
    /\ events = <<>>

ForgetCall ==
    /\ op' = "none"
    /\ req' = NoReq
    /\ outcome' = "none"
    /\ cmd' = <<>>
    /\ cmd_template' = <<>>
    /\ events' = <<>>

\* the paths a compiled command writes: the quoted text after a redirection or
\* an output option
OutputOptions == {" -c - > ", " -c 6 -0 ", " -c 6 -N -1 ", " -2 "}

ClosingQuote(text, i) ==
    CHOOSE j \in (i + 1)..Len(text) :
        /\ text[j] = "'"
        /\ \A k \in (i + 1)..(j - 1) : text[k] # "'"

Written(text) ==
    { SubSeq(text, i + 2, ClosingQuote(text, i + 1) - 1) :
        i \in { n \in 1..(Len(text) - 2) : text[n] \in OutputOptions /\ text[n + 1] = "'" } }

\* the caller executes the compiled pipeline, which writes its output files
RunPipeline ==
    /\ op \in {"gen_clean_cmd", "gen_paired_clean_cmd"}
    /\ outcome = "ok"
    /\ fs' = fs \cup Written(cmd)
    /\ ForgetCall
    /\ UNCHANGED descriptorVars
    /\ UNCHANGED platform
    /\ UNCHANGED streamVars

\* the caller drops the result, or handles the exception
Return ==
    /\ op # "none"
    /\ ForgetCall
    /\ UNCHANGED descriptorVars
    /\ UNCHANGED <<platform, fs>>
    /\ UNCHANGED streamVars

-----------------------------------------------------------------------------
(* Specifications *)

StreamIdle ==
    /\ variant = "none"
    /\ flags_in = <<>>
    /\ flags_out = <<>>
    /\ lines = <<>>
    /\ ids = <<>>
    /\ start = 0
    /\ line_count = 0

\* __post_init__
Constructed ==
    /\ aligner \in Aligners
    /\ idx_path = DefaultIdxPath(aligner)
    /\ ref_archive_path = DefaultRefArchivePath(aligner)
    /\ platform \in Platforms

\* the pipeline compiler on a shared descriptor
Init ==
    /\ Constructed
    /\ fs = mkdir({}, data_dir)
    /\ NoCall
    /\ StreamIdle

Next == GenCleanCmd \/ GenPairedCleanCmd \/ RunPipeline \/ Return

Spec == Init /\ [][Next]_vars

\* index provisioning on any state of the local cache
InitCheck ==
    /\ Constructed
    /\ \E cached \in SUBSET (idx_paths(aligner) \cup {DefaultRefArchivePath(aligner)}) :
          fs = mkdir(cached, data_dir)
    /\ NoCall
    /\ StreamIdle

NextCheck == Check \/ Return

SpecCheck == InitCheck /\ [][NextCheck]_vars

-----------------------------------------------------------------------------
(* The filter stage on a stream of SAM records *)

RECURSIVE BitAnd(_, _)
BitAnd(a, b) ==
    IF a = 0 \/ b = 0 THEN 0
    ELSE (a % 2) * (b % 2) + 2 * BitAnd(a \div 2, b \div 2)

\* samtools view -f INT: keep a record only if every bit of INT is set in its FLAG
Retained(mask, flag) == BitAnd(flag, mask) = mask

\* the mask the compiled command of each variant gives the filter stage
FilterMaskOf(v) == IF v = "paired" THEN PairedFilterMask ELSE SingleFilterMask

FilterRecord ==
    /\ Len(flags_in) < MaxRecords
    /\ \E flag \in 0..MaxFlag :
          /\ flags_in' = Append(flags_in, flag)
          /\ flags_out' = IF Retained(FilterMaskOf(variant), flag)
                          THEN Append(flags_out, flag)
                          ELSE flags_out
    /\ UNCHANGED <<variant, lines, ids, start, line_count>>
    /\ UNCHANGED descriptorVars
    /\ UNCHANGED <<platform, fs>>
    /\ UNCHANGED callVars

InitFilter ==
    /\ Constructed
    /\ fs = mkdir({}, data_dir)
    /\ NoCall
    /\ variant \in {"single", "paired"}
    /\ flags_in = <<>>
    /\ flags_out = <<>>
    /\ lines = <<>>
    /\ ids = <<>>
    /\ start = 0
    /\ line_count = 0

NextFilter == FilterRecord

SpecFilter == InitFilter /\ [][NextFilter]_vars

-----------------------------------------------------------------------------
(* The rename stage on a stream of lines *)

LineKinds == {"@", "record"}

\* BEGIN { ...; line_count=0 } and BEGIN { ...; start=0; line_count=1 }
AwkBegin(v) == IF v = "paired" THEN 1 ELSE 0

\* $1=int(line_count+1)" "
SingleIdent(n) == n + 1

\* the pair number computed without the +1
PairedIdentNoOffset(n) == n \div 2

\* $1=int((line_count+1)/2)" "
PairedIdent(n) == (n + 1) \div 2

\* /^@/ { next }  { $1=...; print $0; line_count++ }
SingleRenameLine(kind) ==
    IF kind = "@"
    THEN UNCHANGED <<ids, start, line_count>>
    ELSE /\ ids' = Append(ids, SingleIdent(line_count))
         /\ line_count' = line_count + 1
         /\ UNCHANGED start

\* /^@/ { next }  !start && !/^@/ { start=1 }  start { $1=...; print $0; line_count++ }
PairedRenameLine(kind) ==
    IF kind = "@"
    THEN UNCHANGED <<ids, start, line_count>>
    ELSE LET started == IF start = 0 /\ kind # "@" THEN 1 ELSE start
         IN  /\ start' = started
             /\ IF started # 0
                THEN /\ ids' = Append(ids, PairedIdent(line_count))
                     /\ line_count' = line_count + 1
                ELSE UNCHANGED <<ids, line_count>>

RenameLine ==
    /\ Len(lines) < MaxLines
    /\ \E kind \in LineKinds :
          /\ lines' = Append(lines, kind)
          /\ IF variant = "paired" THEN PairedRenameLine(kind) ELSE SingleRenameLine(kind)
    /\ UNCHANGED <<variant, flags_in, flags_out>>
    /\ UNCHANGED descriptorVars
    /\ UNCHANGED <<platform, fs>>
    /\ UNCHANGED callVars

InitRename ==
    /\ Constructed
    /\ fs = mkdir({}, data_dir)
    /\ NoCall
    /\ variant \in {"single", "paired"}
    /\ flags_in = <<>>
    /\ flags_out = <<>>
    /\ lines = <<>>
    /\ ids = <<>>
    /\ start = 0
    /\ line_count = AwkBegin(variant)

NextRename == RenameLine

SpecRename == InitRename /\ [][NextRename]_vars

-----------------------------------------------------------------------------
(* Properties of the pipeline compiler *)

Compiled == op \in {"gen_clean_cmd", "gen_paired_clean_cmd"} /\ outcome = "ok"

\* C1: after a compile call returns, its command uses the custom index for both
\* the index and the reference placeholder, and the descriptor's idx_path and
\* ref_archive_path still hold the backend defaults.
C1_CustomIndexStaysInCall ==
    Compiled =>
        /\ req.index # None =>
              /\ cmd_template["{INDEX_PATH}"] = req.index
              /\ cmd_template["{REF_ARCHIVE_PATH}"] = req.index
        /\ req.index = None =>
              /\ cmd_template["{INDEX_PATH}"] = DefaultIdxPath(aligner)
              /\ cmd_template["{REF_ARCHIVE_PATH}"] = DefaultRefArchivePath(aligner)
        /\ idx_path = DefaultIdxPath(aligner)
        /\ ref_archive_path = DefaultRefArchivePath(aligner)

\* the output files a request collides with
RequestOutputs(r) ==
    IF r.fastq2 = None
    THEN { OutPath(r.out_dir, fastq_path_to_stem(r.fastq1), ".clean.fastq.gz") }
    ELSE { OutPath(r.out_dir, fastq_path_to_stem(r.fastq1), ".clean_1.fastq.gz"),
           OutPath(r.out_dir, fastq_path_to_stem(r.fastq2), ".clean_2.fastq.gz") }

CompileStep ==
    op = "none" /\ op' \in {"gen_clean_cmd", "gen_paired_clean_cmd"}

\* C2: a compile call raises FileExistsError, returns no command and leaves the
\* descriptor's paths as they were exactly when force is false and one of its
\* output FASTQ files exists when it is called.
C2_CollisionRaisesFirst ==
    [][CompileStep =>
          /\ outcome' = "FileExistsError"
                <=> (~req'.force /\ RequestOutputs(req') \cap fs # {})
          /\ outcome' \in {"ok", "FileExistsError"}
          /\ outcome' = "FileExistsError" =>
                /\ cmd' = <<>>
                /\ idx_path' = idx_path
                /\ ref_archive_path' = ref_archive_path]_vars

C2_Witness ==
    /\ op = "gen_paired_clean_cmd"
    /\ outcome = "FileExistsError"
    /\ req.index # None
    /\ OutPath(req.out_dir, fastq_path_to_stem(req.fastq1), ".clean_1.fastq.gz") \notin fs
    /\ OutPath(req.out_dir, fastq_path_to_stem(req.fastq2), ".clean_2.fastq.gz") \in fs
    /\ idx_path = DefaultIdxPath(aligner)

\* C3: a paired command compiled with reorder carries exactly one of the explicit
\* sort stage (on darwin) and the appended native flag (elsewhere); without
\* reorder it carries neither.
C3_ReorderExactlyOne ==
    (op = "gen_paired_clean_cmd" /\ outcome = "ok") =>
        LET sorted == Contains(cmd, SortStage)
            native == /\ cmd_template["{ALIGNER_ARGS}"] = req.aligner_args \o <<NativeReorder>>
                      /\ Contains(cmd, NativeReorder)
            plain == /\ cmd_template["{ALIGNER_ARGS}"] = req.aligner_args
                     /\ ~Contains(cmd, NativeReorder)
        IN  /\ native \/ plain
            /\ req.reorder => (sorted <=> ~native)
            /\ (req.reorder /\ platform = "darwin") => (sorted /\ plain)
            /\ (req.reorder /\ platform # "darwin") => (native /\ ~sorted)
            /\ ~req.reorder => (~sorted /\ plain)

C3_Witness ==
    /\ op = "gen_paired_clean_cmd"
    /\ outcome = "ok"
    /\ req.reorder
    /\ platform = "linux"
    /\ Contains(cmd, NativeReorder)
    /\ ~Contains(cmd, SortStage)

\* C7: a paired compile call names all four output paths from the stem of the
\* first input, and its overwrite guard looks at exactly the two FASTQ paths so
\* named.
C7_PairedOutputsFromFirstStem ==
    op = "gen_paired_clean_cmd" =>
        LET stem1 == fastq_path_to_stem(req.fastq1)
            clean_1 == OutPath(req.out_dir, stem1, ".clean_1.fastq.gz")
            clean_2 == OutPath(req.out_dir, stem1, ".clean_2.fastq.gz")
            reads_in == OutPath(req.out_dir, stem1, ".reads_in.txt")
            reads_out == OutPath(req.out_dir, stem1, ".reads_out.txt")
        IN  /\ outcome = "ok" => Written(cmd) = {clean_1, clean_2, reads_in, reads_out}
            /\ outcome = "FileExistsError"
                  <=> (~req.force /\ (clean_1 \in fs \/ clean_2 \in fs))

StageMarkers ==
    {TeeStage, FilterStage, SortStage, SingleRenameStage, PairedRenameStage, WriteStage}

IsStageMarker(c) == c \in StageMarkers

\* the stages of a command, in stream order
Skeleton(text) == SelectSeq(text, IsStageMarker)

\* position of the n-th occurrence of chunk c
Position(text, c, n) ==
    CHOOSE i \in 1..Len(text) :
        text[i] = c /\ Cardinality({j \in 1..i : text[j] = c}) = n

\* the quoted path that opens at position i
QuotedAt(text, i) == SubSeq(text, i + 1, ClosingQuote(text, i) - 1)

\* the alignment command: everything upstream of the first stage
AlignmentCmd(text) ==
    SubSeq(text, 1, (CHOOSE i \in 1..Len(text) :
                        IsStageMarker(text[i]) /\ \A j \in 1..(i - 1) : ~IsStageMarker(text[j])) - 1)

\* C9: in every compiled command the stages run align, count-before tap (mask
\* 2304, to reads_in), filter, count-after tap (mask 256, to reads_out), the sort
\* stage if emitted, the rename stage iff rename was asked for, write; the write
\* stage is last and carries the requested thread count.
C9_StageOrder ==
    Compiled =>
        LET stem1 == fastq_path_to_stem(req.fastq1)
            rename_stage == IF op = "gen_clean_cmd" THEN SingleRenameStage
                            ELSE PairedRenameStage
            head == <<TeeStage, FilterStage, TeeStage>>
            rename_part == IF req.rename THEN <<rename_stage>> ELSE <<>>
            tap1 == Position(cmd, TeeStage, 1)
            tap2 == Position(cmd, TeeStage, 2)
            write == Position(cmd, WriteStage, 1)
        IN  /\ \/ Skeleton(cmd) = head \o rename_part \o <<WriteStage>>
               \/ Skeleton(cmd) = head \o <<SortStage>> \o rename_part \o <<WriteStage>>
            /\ AlignmentCmd(cmd) # <<>>
            /\ Head(cmd) = Head(aligner.bin_path)
            /\ cmd[tap1 + 1] = "2304"
            /\ QuotedAt(cmd, tap1 + 3) = OutPath(req.out_dir, stem1, ".reads_in.txt")
            /\ cmd[tap2 + 1] = "256"
            /\ QuotedAt(cmd, tap2 + 3) = OutPath(req.out_dir, stem1, ".reads_out.txt")
            /\ cmd[write + 1] = ToString(req.threads)
            /\ cmd[Len(cmd)] = "'"

C9_Witness ==
    /\ op = "gen_paired_clean_cmd"
    /\ outcome = "ok"
    /\ req.rename
    /\ req.reorder
    /\ platform = "darwin"
    /\ Skeleton(cmd) = <<TeeStage, FilterStage, TeeStage, SortStage, PairedRenameStage,
                         WriteStage>>

Placeholders ==
    {"{BIN_PATH}", "{REF_ARCHIVE_PATH}", "{INDEX_PATH}", "{FASTQ}", "{FASTQ1}",
     "{FASTQ2}", "{ALIGNER_ARGS}", "{THREADS}"}

Occurs(part, text) ==
    \E i \in 0..(Len(text) - Len(part)) : SubSeq(text, i + 1, i + Len(part)) = part

\* C10: the alignment command of every compiled command holds no placeholder
\* token, and holds each supplied value verbatim: the binary path, the index
\* path, the read paths, the extra aligner arguments and the thread count.
C10_SubstitutedExactlyOnce ==
    Compiled =>
        LET alignment_cmd == AlignmentCmd(cmd)
        IN  /\ \A i \in 1..Len(alignment_cmd) : alignment_cmd[i] \notin Placeholders
            /\ Occurs(aligner.bin_path, alignment_cmd)
            /\ req.index # None => Occurs(req.index, alignment_cmd)
            /\ Occurs(req.fastq1, alignment_cmd)
            /\ req.fastq2 # None => Occurs(req.fastq2, alignment_cmd)
            /\ Occurs(req.aligner_args, alignment_cmd)
            /\ Occurs(<<ToString(req.threads)>>, alignment_cmd)

-----------------------------------------------------------------------------
(* Properties of the stream stages *)

HasBit(flag, bit) == (flag \div bit) % 2 = 1

Unmapped(flag) == HasBit(flag, 4)

BothUnmapped(flag) == HasBit(flag, 4) /\ HasBit(flag, 8)

\* C5: the single-end filter lets through exactly the records whose unmapped bit
\* (4) is set, the paired-end filter exactly those with the unmapped and the
\* mate-unmapped bit (4 and 8) both set; order is kept.
C5_FilterPredicate ==
    /\ variant = "single" => flags_out = SelectSeq(flags_in, Unmapped)
    /\ variant = "paired" => flags_out = SelectSeq(flags_in, BothUnmapped)

C5_Witness ==
    /\ variant = "paired"
    /\ flags_in = <<4, 13>>
    /\ flags_out = <<13>>

RecordsIn(text) == Cardinality({i \in 1..Len(text) : text[i] # "@"})

\* the least n with 2 * n >= k
CeilHalf(k) == CHOOSE n \in 0..k : 2 * n >= k /\ 2 * (n - 1) < k

\* C4: the paired rename stage gives the k-th non-header line the identifier
\* ceil(k/2): identifiers start at 1, never decrease, each value is printed twice
\* in a row (the last one once when the record count is odd), and header lines
\* are dropped without advancing the counter, wherever they stand.
C4_PairedRenameNumbering ==
    variant = "paired" =>
        /\ Len(ids) = RecordsIn(lines)
        /\ \A k \in 1..Len(ids) : ids[k] = CeilHalf(k)
        /\ ids # <<>> => ids[1] = 1
        /\ \A k \in 1..(Len(ids) - 1) : ids[k] <= ids[k + 1]
        /\ \A v \in 1..CeilHalf(Len(ids)) :
              LET at == {k \in 1..Len(ids) : ids[k] = v}
              IN  /\ at # {}
                  /\ \A i, j \in at : i - j \in {-1, 0, 1}
                  /\ Cardinality(at) = IF 2 * v <= Len(ids) THEN 2 ELSE 1
        /\ line_count = RecordsIn(lines) + 1

C4_Witness ==
    /\ variant = "paired"
    /\ lines = <<"@", "record", "record", "@", "record", "record", "record">>
    /\ ids = <<1, 1, 2, 2, 3>>

-----------------------------------------------------------------------------
(* Properties of index provisioning *)

Calls(evs) == {evs[i].call : i \in 1..Len(evs)}

FetchCalls == {"mkdir", "download", "untar_file", "move"}

Failed(evs) == \E i \in 1..Len(evs) : ~evs[i].ok

\* the default data is on disk
Present(files) ==
    /\ aligner.name = "Bowtie2" => \A path \in idx_paths(aligner) : path \in files
    /\ aligner.name = "Minimap2" => ref_archive_path \in files

\* C6: when check returns normally, a custom index is in use or the default data
\* is on disk, and the version probe ran and succeeded; when the probe, the
\* download or the extraction fails, check raises.
C6_CheckGuarantee ==
    op = "check" =>
        /\ outcome = "ok" =>
              /\ req.using_custom_index \/ Present(fs)
              /\ events # <<>>
              /\ events[Len(events)] = Event("run_version", TRUE)
        /\ Failed(events) => outcome \in {"IOError", "RuntimeError"}
        /\ outcome = "ok" \/ Failed(events)

C6_Witness ==
    /\ op = "check"
    /\ outcome = "ok"
    /\ ~req.using_custom_index
    /\ aligner.name = "Bowtie2"
    /\ "untar_file" \in Calls(events)
    /\ Present(fs)

CheckStep == op = "none" /\ op' = "check"

\* C8: a call of check fetches at most once, and exactly when no custom index is
\* in use and the default data is missing; otherwise nothing is downloaded,
\* unpacked or moved. A fetch that succeeds leaves the data present, one that
\* fails raises without a second attempt, and the version probe comes after the
\* fetch decision.
C8_FetchOnceWhenMissing ==
    [][CheckStep =>
          LET missing == ~req'.using_custom_index /\ ~Present(fs)
              fetched == Calls(events') \cap FetchCalls # {}
              probe == {i \in 1..Len(events') : events'[i].call = "run_version"}
          IN  /\ fetched <=> missing
              /\ \A c \in FetchCalls :
                    Cardinality({i \in 1..Len(events') : events'[i].call = c}) <= 1
              /\ ~missing => fs' = fs
              /\ (missing /\ ~Failed(SubSeq(events', 1, Len(events') - Cardinality(probe))))
                    => Present(fs')
              /\ (fetched /\ \E i \in 1..Len(events') :
                                events'[i].call \in FetchCalls /\ ~events'[i].ok)
                    => /\ outcome' = "IOError"
                       /\ ~events'[Len(events')].ok
                       /\ probe = {}
              /\ outcome' # "IOError" => probe = {Len(events')}
              /\ Cardinality(probe) <= 1]_vars

C8_Witness ==
    /\ op = "check"
    /\ aligner.name = "Minimap2"
    /\ events = <<Event("mkdir", TRUE), Event("download", TRUE), Event("move", TRUE),
                  Event("run_version", TRUE)>>
    /\ outcome = "ok"
    /\ ref_archive_path \in fs

====
